---- MODULE Spec2Model ----
(***************************************************************************)
(* Model of src/jp2_to_tif_batch.py: the NDVI change-detection script.     *)
(*                                                                         *)
(* The script is a straight-line batch run.  Each module-level statement   *)
(* is one action, ordered by pc.  Rasters are grids of samples; a sample   *)
(* is NaN or an exact rational (float32 rounding is not modelled).  The    *)
(* outcome of the external I/O calls (glob, rasterio.open, reproject) is   *)
(* an input of the action that makes the call.                             *)
(***************************************************************************)
EXTENDS Integers, Sequences, FiniteSets, TLC

\* ---------------------------------------------------------------- bounds
\* Widest raster row of the input files.
MaxWidth == 2
\* Largest and most negative digital number of an input band sample.
MaxDN == 3
MaxNeg == 1

\* ------------------------------------------------------- sample arithmetic
RECURSIVE GCD(_, _)
GCD(a, b) == IF b = 0 THEN a ELSE GCD(b, a % b)

Abs(x) == IF x < 0 THEN -x ELSE x

NaN == [nan |-> TRUE, n |-> 0, d |-> 1]

\* The finite value n/d in lowest terms with a positive denominator.
Rat(n, d) ==
    LET g == GCD(Abs(n), Abs(d))
        s == IF d < 0 THEN -1 ELSE 1
    IN  [nan |-> FALSE, n |-> (s * n) \div g, d |-> (s * d) \div g]

Num(k) == Rat(k, 1)

isnan(x) == x.nan

\* IEEE arithmetic on samples: NaN in, NaN out.
Add(x, y) == IF x.nan \/ y.nan THEN NaN ELSE Rat(x.n * y.d + y.n * x.d, x.d * y.d)
Sub(x, y) == IF x.nan \/ y.nan THEN NaN ELSE Rat(x.n * y.d - y.n * x.d, x.d * y.d)
Mul(x, y) == IF x.nan \/ y.nan THEN NaN ELSE Rat(x.n * y.n, x.d * y.d)
\* x / y; 0/0 is NaN, and x/0 (an infinity) only ever arises in the branch
\* of np.where that is then discarded, so it is NaN here too.
Div(x, y) == IF x.nan \/ y.nan \/ y.n = 0 THEN NaN ELSE Rat(x.n * y.d, x.d * y.n)

\* Comparisons with NaN are false.
Less(x, y) == ~x.nan /\ ~y.nan /\ x.n * y.d < y.n * x.d
Eq(x, y) == ~x.nan /\ ~y.nan /\ x.n * y.d = y.n * x.d

\* np.clip(x, lo, hi) on one sample; NaN stays NaN.
Clip(x, lo, hi) == IF x.nan THEN x ELSE IF Less(x, lo) THEN lo ELSE IF Less(hi, x) THEN hi ELSE x

\* ------------------------------------------------------------ descriptors
\* Affine transforms (a, b, c, d, e, f) and coordinate reference systems of
\* the input files.
Transforms == {<<10, 0, 0, 0, -10, 0>>, <<20, 0, 0, 0, -20, 0>>}
BandValues == {Num(k) : k \in (-MaxNeg)..MaxDN} \cup {NaN}

NoFile == [height |-> 0, width |-> 0, transform |-> <<>>, crs |-> "", px |-> <<>>]
NoArr == [shape |-> <<0, 0>>, px |-> <<>>]
NoProf == [height |-> 0, width |-> 0, transform |-> <<>>, crs |-> ""]
NoDesc == [shape |-> <<0, 0>>, transform |-> <<>>, crs |-> ""]

\* The Grid Descriptor of a raster file and of a profile.
DescOf(p) == [shape |-> <<p.height, p.width>>, transform |-> p.transform, crs |-> p.crs]

\* --------------------------------------------------------- numpy arrays
Max(a, b) == IF a > b THEN a ELSE b

\* numpy broadcasting of two 2-D arrays.
Broadcastable(a, b) ==
    \A i \in 1..2 : a.shape[i] = b.shape[i] \/ a.shape[i] = 1 \/ b.shape[i] = 1

At(a, r, c) ==
    a.px[((IF a.shape[1] = 1 THEN 1 ELSE r) - 1) * a.shape[2]
         + (IF a.shape[2] = 1 THEN 1 ELSE c)]

\* The shape two arrays broadcast to, and the sample of a at flat index k
\* of an array of that shape.
BShape(a, b) == <<Max(a.shape[1], b.shape[1]), Max(a.shape[2], b.shape[2])>>
Size(shape) == shape[1] * shape[2]
Elem(a, shape, k) == At(a, ((k - 1) \div shape[2]) + 1, ((k - 1) % shape[2]) + 1)

count_nonzero(a) == Cardinality({k \in 1..Len(a.px) : a.px[k]})

\* ------------------------------------------------------------ functions
\* find_band: the first match of the glob, or FileNotFoundError.
find_band(d, band) == IF d[band] = NoFile THEN "FileNotFoundError" ELSE band

\* read_band: arr, profile, transform, crs of the file (nodata is unused).
read_band(f) ==
    [arr |-> [shape |-> <<f.height, f.width>>, px |-> f.px],
     profile |-> [height |-> f.height, width |-> f.width,
                  transform |-> f.transform, crs |-> f.crs],
     transform |-> f.transform,
     crs |-> f.crs]

\* A resampling that keeps the shape of the source.
reproject_to_match_SrcShape(f, match_profile) ==
    {[shape |-> <<f.height, f.width>>, px |-> p] :
        p \in [1..(f.height * f.width) -> {f.px[k] : k \in 1..Len(f.px)} \cup {NaN}]}

\* The samples bilinear resampling can produce from a source: a source
\* sample (NaN included) or the fill value outside the source's extent.
ResampleValues(f) == {f.px[k] : k \in 1..Len(f.px)} \cup {NaN}

\* reproject_to_match: the arrays the call can return, each of the shape of
\* match_profile.
reproject_to_match(f, match_profile) ==
    {[shape |-> <<match_profile.height, match_profile.width>>, px |-> p] :
        p \in [1..(match_profile.height * match_profile.width) -> ResampleValues(f)]}

\* The index without the clip to [-1, 1].
ndvi_pixel_NoClip(nir, red) ==
    LET denom == Add(nir, red)
    IN  IF Eq(denom, Num(0)) THEN NaN ELSE Div(Sub(nir, red), denom)

\* compute_ndvi on one pixel and on arrays.
ndvi_pixel(nir, red) ==
    LET denom == Add(nir, red)
        ndvi == IF Eq(denom, Num(0)) THEN NaN ELSE Div(Sub(nir, red), denom)
    IN  Clip(ndvi, Num(-1), Num(1))

compute_ndvi(nir, red) ==
    LET s == BShape(nir, red)
    IN  [shape |-> s,
         px |-> [k \in 1..Size(s) |-> ndvi_pixel(Elem(nir, s, k), Elem(red, s, k))]]

\* deforest_mask.astype("float32"): booleans become 0.0 and 1.0.
bool_to_float(b) == IF b THEN Num(1) ELSE Num(0)
astype_float32(mask) ==
    [shape |-> mask.shape, px |-> [k \in 1..Len(mask.px) |-> bool_to_float(mask.px[k])]]

\* save_tif: the file written for arr under profile.
save_tif(arr, profile) ==
    [height |-> profile.height, width |-> profile.width,
     transform |-> profile.transform, crs |-> profile.crs,
     px |-> arr.px]

\* THRESH = -0.2
THRESH == Rat(-2, 10)

\* Validity with "or" for "and", and a threshold test that is not strict.
valid_pixel_Or(a, b) == (~isnan(a)) \/ (~isnan(b))
mask_pixel_LessEq(d, v) == (Less(d, Rat(-2, 10)) \/ Eq(d, Rat(-2, 10))) /\ v

valid_pixel(a, b) == (~isnan(a)) /\ (~isnan(b))
mask_pixel(d, v) == Less(d, THRESH) /\ v

\* The area summary with the signed pixel height.
area_summary_NoAbs(mask, val, profile) ==
    LET ha_per_pixel == Rat(profile.transform[1] * profile.transform[5], 10000)
        defor_ha == Mul(Num(count_nonzero(mask)), ha_per_pixel)
        total_ha == Mul(Num(count_nonzero(val)), ha_per_pixel)
    IN  [defor_pixels |-> count_nonzero(mask), valid_pixels |-> count_nonzero(val),
         defor_ha |-> defor_ha, total_ha |-> total_ha,
         defor_pct |-> IF Less(Num(0), total_ha)
                       THEN Mul(Div(defor_ha, total_ha), Num(100))
                       ELSE NaN]

\* The area summary of lines 117-127.
area_summary(mask, val, profile) ==
    LET px_w == Abs(profile.transform[1])
        px_h == Abs(profile.transform[5])
        m2_per_pixel == px_w * px_h
        ha_per_pixel == Rat(m2_per_pixel, 10000)
        defor_pixels == count_nonzero(mask)
        valid_pixels == count_nonzero(val)
        defor_ha == Mul(Num(defor_pixels), ha_per_pixel)
        total_ha == Mul(Num(valid_pixels), ha_per_pixel)
    IN  [defor_pixels |-> defor_pixels, valid_pixels |-> valid_pixels,
         defor_ha |-> defor_ha, total_ha |-> total_ha,
         defor_pct |-> IF Less(Num(0), total_ha)
                       THEN Mul(Div(defor_ha, total_ha), Num(100))
                       ELSE NaN]

\* ------------------------------------------------------------------ state
VARIABLES
    pc,     \* the statement the script is at, "done" or "failed"
    disk,   \* the raster files: the four input bands and OUT_DIR
    g,      \* the module-level variables of the script
    geo,    \* the Grid Descriptor the samples of each array lie on
    ops,    \* the per-pixel operations applied so far, with their operands' descriptors
    log     \* the stages executed so far, in order

vars == <<pc, disk, g, geo, ops, log>>

Bands == {"B04_2020", "B08_2020", "B04_2024", "B08_2024"}
Outputs == {"NDVI_2020.tif", "NDVI_2024.tif", "NDVI_2020_tmp.tif",
            "NDVI_diff_24_minus_20.tif", "deforest_mask.tif"}

Arrays == {"red20", "nir20", "ndvi20", "red24", "nir24", "ndvi24",
           "diff", "valid", "deforest_mask"}
Profiles == {"prof20", "prof24"}

g0 == [v \in Bands \cup Arrays \cup Profiles
            \cup {"tfm20", "crs20", "tfm24", "crs24", "summary"} |->
          IF v \in Bands THEN ""
          ELSE IF v \in Arrays THEN NoArr
          ELSE IF v \in Profiles THEN NoProf
          ELSE IF v \in {"tfm20", "tfm24"} THEN <<>>
          ELSE IF v \in {"crs20", "crs24"} THEN ""
          ELSE [defor_pixels |-> 0, valid_pixels |-> 0, defor_ha |-> NaN,
                total_ha |-> NaN, defor_pct |-> NaN]]

geo0 == [v \in {"red20", "nir20", "ndvi20", "red24", "nir24", "ndvi24"} |-> NoDesc]

\* A band file of one shape, transform and CRS whose samples are all v.
BandFile(shape, t, c, v) ==
    [height |-> shape[1], width |-> shape[2], transform |-> t, crs |-> c,
     px |-> [k \in 1..(shape[1] * shape[2]) |-> v]]

Disk0(f) == [p \in Bands \cup Outputs |-> IF p \in Bands THEN f[p] ELSE NoFile]

\* The descriptors a band file of a grid scene can have: a reference grid,
\* and grids that differ from it in shape, in transform, in CRS, or in both
\* shape and transform.
GridDescs ==
    {[shape |-> <<1, 1>>, transform |-> <<10, 0, 0, 0, -10, 0>>, crs |-> "EPSG:32615"],
     [shape |-> <<1, MaxWidth>>, transform |-> <<10, 0, 0, 0, -10, 0>>, crs |-> "EPSG:32615"],
     [shape |-> <<1, 1>>, transform |-> <<20, 0, 0, 0, -20, 0>>, crs |-> "EPSG:32615"],
     [shape |-> <<1, 1>>, transform |-> <<10, 0, 0, 0, -10, 0>>, crs |-> "EPSG:32616"],
     [shape |-> <<1, MaxWidth>>, transform |-> <<20, 0, 0, 0, -20, 0>>, crs |-> "EPSG:32615"]}

\* Input scenes whose four bands vary in shape, transform and CRS.
GridScenes ==
    {Disk0([b \in Bands |->
               BandFile(d[b].shape, d[b].transform, d[b].crs,
                        IF b \in {"B04_2020", "B04_2024"} THEN Num(1) ELSE Num(MaxDN))]) :
        d \in [Bands -> GridDescs]}

\* One-pixel scenes whose samples vary freely; the two dates share a grid or
\* differ in transform.
PixelScenes ==
    {Disk0([b \in Bands |->
               BandFile(<<1, 1>>,
                        IF b \in {"B04_2020", "B08_2020"} THEN <<10, 0, 0, 0, -10, 0>> ELSE t24,
                        "EPSG:32615", v[b])]) :
        v \in [Bands -> BandValues], t24 \in Transforms}

\* Scenes with a band file missing.
MissingScenes ==
    {Disk0([b \in Bands |->
               IF b \in missing THEN NoFile
               ELSE BandFile(<<1, 1>>, <<10, 0, 0, 0, -10, 0>>, "EPSG:32615", Num(1))]) :
        missing \in (SUBSET Bands) \ {{}}}

Init ==
    /\ pc = "find_B04_2020"
    /\ disk \in GridScenes \cup PixelScenes \cup MissingScenes
    /\ g = g0
    /\ geo = geo0
    /\ ops = {}
    /\ log = <<>>

Event(ev, what) == [ev |-> ev, what |-> what]

\* An uncaught exception at module level ends the run.
Raise ==
    /\ pc' = "failed"
    /\ log' = Append(log, Event("fail", pc))
    /\ UNCHANGED <<disk, g, geo, ops>>

\* ---------------------------------------------------------------- actions
\* Lines 65-68: B04_2020 = find_band(DIR20, "B04") and the three others.
FindStep(at, band, next) ==
    /\ pc = at
    /\ IF find_band(disk, band) = "FileNotFoundError"
       THEN Raise
       ELSE /\ g' = [g EXCEPT ![band] = find_band(disk, band)]
            /\ pc' = next
            /\ log' = Append(log, Event("find", band))
            /\ UNCHANGED <<disk, geo, ops>>

FindBands ==
    \/ FindStep("find_B04_2020", "B04_2020", "find_B08_2020")
    \/ FindStep("find_B08_2020", "B08_2020", "find_B04_2024")
    \/ FindStep("find_B04_2024", "B04_2024", "find_B08_2024")
    \/ FindStep("find_B08_2024", "B08_2024", "read_red20")

\* Lines 74 and 85: red, prof, tfm, crs, _ = read_band(B04).
ReadRedStep(at, band, red, prof, tfm, crs, next) ==
    /\ pc = at
    /\ \E ok \in BOOLEAN :
         IF ~ok
         THEN Raise
         ELSE LET r == read_band(disk[g[band]])
              IN  /\ g' = [g EXCEPT ![red] = r.arr, ![prof] = r.profile,
                                    ![tfm] = r.transform, ![crs] = r.crs]
                  /\ geo' = [geo EXCEPT ![red] = DescOf(disk[g[band]])]
                  /\ pc' = next
                  /\ log' = Append(log, Event("load", red))
                  /\ UNCHANGED <<disk, ops>>

\* Lines 75 and 86: nir, _, _, _, _ = read_band(B08).
ReadNirStep(at, band, nir, next) ==
    /\ pc = at
    /\ \E ok \in BOOLEAN :
         IF ~ok
         THEN Raise
         ELSE /\ g' = [g EXCEPT ![nir] = read_band(disk[g[band]]).arr]
              /\ geo' = [geo EXCEPT ![nir] = DescOf(disk[g[band]])]
              /\ pc' = next
              /\ log' = Append(log, Event("load", nir))
              /\ UNCHANGED <<disk, ops>>

ReadBands ==
    \/ ReadRedStep("read_red20", "B04_2020", "red20", "prof20", "tfm20", "crs20", "read_nir20")
    \/ ReadNirStep("read_nir20", "B08_2020", "nir20", "align20")
    \/ ReadRedStep("read_red24", "B04_2024", "red24", "prof24", "tfm24", "crs24", "read_nir24")
    \/ ReadNirStep("read_nir24", "B08_2024", "nir24", "align24")

\* Lines 78-79 and 88-89: bring B08 onto the grid of B04 when shapes differ.
NeedsIntraAlign(red, nir) == red.shape # nir.shape

IntraAlignStep(at, band, red, nir, prof, next) ==
    /\ pc = at
    /\ IF NeedsIntraAlign(g[red], g[nir])
       THEN \E ok \in BOOLEAN :
              IF ~ok
              THEN Raise
              ELSE \E dst \in reproject_to_match(disk[g[band]], g[prof]) :
                     /\ g' = [g EXCEPT ![nir] = dst]
                     /\ geo' = [geo EXCEPT ![nir] = DescOf(g[prof])]
                     /\ pc' = next
                     /\ log' = Append(log, Event("align", nir))
                     /\ UNCHANGED <<disk, ops>>
       ELSE /\ pc' = next
            /\ UNCHANGED <<disk, g, geo, ops, log>>

IntraAlign ==
    \/ IntraAlignStep("align20", "B08_2020", "red20", "nir20", "prof20", "ndvi20")
    \/ IntraAlignStep("align24", "B08_2024", "red24", "nir24", "prof24", "ndvi24")

\* Lines 81 and 91: ndvi = compute_ndvi(nir, red).
NdviStep(at, red, nir, ndvi, prof, next) ==
    /\ pc = at
    /\ IF ~Broadcastable(g[nir], g[red])
       THEN Raise
       ELSE /\ g' = [g EXCEPT ![ndvi] = compute_ndvi(g[nir], g[red])]
            /\ geo' = [geo EXCEPT ![ndvi] = DescOf(g[prof])]
            /\ ops' = ops \cup {[op |-> ndvi, a |-> geo[nir], b |-> geo[red]]}
            /\ pc' = next
            /\ log' = Append(log, Event("compute", ndvi))
            /\ UNCHANGED disk

ComputeIndex ==
    \/ NdviStep("ndvi20", "red20", "nir20", "ndvi20", "prof20", "save_ndvi20")
    \/ NdviStep("ndvi24", "red24", "nir24", "ndvi24", "prof24", "save_ndvi24")

\* A save_tif call: the file appears, or the write raises.  An array that
\* does not have the profile's shape makes dst.write raise.
SaveStep(at, path, arr, prof, next) ==
    /\ pc = at
    /\ \E ok \in BOOLEAN :
         IF ~ok \/ arr.shape # <<prof.height, prof.width>>
         THEN Raise
         ELSE /\ disk' = [disk EXCEPT ![path] = save_tif(arr, prof)]
              /\ pc' = next
              /\ log' = Append(log, Event("write", path))
              /\ UNCHANGED <<g, geo, ops>>

\* Lines 82 and 92.
SaveIndex ==
    \/ SaveStep("save_ndvi20", "NDVI_2020.tif", g["ndvi20"], g["prof20"], "read_red24")
    \/ SaveStep("save_ndvi24", "NDVI_2024.tif", g["ndvi24"], g["prof24"], "interdate")

\* A run that always resamples the 2020 index.
NeedsInterAlign_Always(a20, a24, t20, t24) == TRUE

\* Line 95: is the 2020 index to be resampled onto the 2024 grid?
NeedsInterAlign(a20, a24, t20, t24) == a20.shape # a24.shape \/ t20 # t24

InterDate ==
    /\ pc = "interdate"
    /\ pc' = IF NeedsInterAlign(g["ndvi20"], g["ndvi24"], g["tfm20"], g["tfm24"])
             THEN "save_tmp" ELSE "diff"
    /\ UNCHANGED <<disk, g, geo, ops, log>>

\* Line 97: save_tif(tmp_path, ndvi20, prof20).
SaveTmp ==
    SaveStep("save_tmp", "NDVI_2020_tmp.tif", g["ndvi20"], g["prof20"], "reproject_tmp")

\* Resampling onto the earlier date's own grid.
InterTarget_Earlier(p20, p24) == p20

\* The profile the 2020 index is resampled onto.
InterTarget(p20, p24) == p24

\* Line 98: ndvi20 = reproject_to_match(tmp_path, prof24).
ReprojectTmp ==
    /\ pc = "reproject_tmp"
    /\ \E ok \in BOOLEAN :
         IF ~ok
         THEN Raise
         ELSE LET target == InterTarget(g["prof20"], g["prof24"])
              IN  \E dst \in reproject_to_match(disk["NDVI_2020_tmp.tif"], target) :
                     /\ g' = [g EXCEPT !["ndvi20"] = dst]
                     /\ geo' = [geo EXCEPT !["ndvi20"] = DescOf(target)]
                     /\ pc' = "diff"
                     /\ log' = Append(log, Event("align", "ndvi20"))
                     /\ UNCHANGED <<disk, ops>>

\* Line 101: diff = ndvi24 - ndvi20.
difference(later, earlier) ==
    LET s == BShape(later, earlier)
    IN  [shape |-> s,
         px |-> [k \in 1..Size(s) |-> Sub(Elem(later, s, k), Elem(earlier, s, k))]]

Diff ==
    /\ pc = "diff"
    /\ IF ~Broadcastable(g["ndvi24"], g["ndvi20"])
       THEN Raise
       ELSE /\ g' = [g EXCEPT !["diff"] = difference(g["ndvi24"], g["ndvi20"])]
            /\ ops' = ops \cup {[op |-> "diff", a |-> geo["ndvi24"], b |-> geo["ndvi20"]]}
            /\ pc' = "save_diff"
            /\ log' = Append(log, Event("compute", "diff"))
            /\ UNCHANGED <<disk, geo>>

\* The profile the difference and the mask are written under.
OutProfile(p20, p24) == p24

\* The difference raster computed but never written.
SaveDiff_Skipped ==
    /\ pc = "save_diff"
    /\ pc' = "mask"
    /\ UNCHANGED <<disk, g, geo, ops, log>>

\* Line 102.
SaveDiff ==
    SaveStep("save_diff", "NDVI_diff_24_minus_20.tif", g["diff"],
             OutProfile(g["prof20"], g["prof24"]), "mask")

\* Line 111: valid = (~np.isnan(ndvi20)) & (~np.isnan(ndvi24)).
valid_of(a20, a24) ==
    LET s == BShape(a20, a24)
    IN  [shape |-> s,
         px |-> [k \in 1..Size(s) |-> valid_pixel(Elem(a20, s, k), Elem(a24, s, k))]]

\* Line 112: deforest_mask = (diff < THRESH) & valid.
deforest_mask_of(d, v) ==
    LET s == BShape(d, v)
    IN  [shape |-> s,
         px |-> [k \in 1..Size(s) |-> mask_pixel(Elem(d, s, k), Elem(v, s, k))]]

\* Lines 111-112 (the plots of lines 105-107 and 114 are not modelled).
Mask ==
    /\ pc = "mask"
    /\ LET v == valid_of(g["ndvi20"], g["ndvi24"])
       IN  /\ g' = [g EXCEPT !["valid"] = v,
                             !["deforest_mask"] = deforest_mask_of(g["diff"], v)]
           /\ ops' = ops \cup {[op |-> "mask", a |-> geo["ndvi20"], b |-> geo["ndvi24"]]}
           /\ pc' = "save_mask"
           /\ log' = Append(log, Event("compute", "deforest_mask"))
           /\ UNCHANGED <<disk, geo>>

\* Line 113.
SaveMask ==
    SaveStep("save_mask", "deforest_mask.tif", astype_float32(g["deforest_mask"]),
             OutProfile(g["prof20"], g["prof24"]), "area")

\* Lines 117-131: the area summary, printed.
Area ==
    /\ pc = "area"
    /\ g' = [g EXCEPT !["summary"] =
                area_summary(g["deforest_mask"], g["valid"], g["prof24"])]
    /\ pc' = "done"
    /\ log' = Append(log, Event("compute", "summary"))
    /\ UNCHANGED <<disk, geo, ops>>

Next ==
    \/ FindBands
    \/ ReadBands
    \/ IntraAlign
    \/ ComputeIndex
    \/ SaveIndex
    \/ InterDate
    \/ SaveTmp
    \/ ReprojectTmp
    \/ Diff
    \/ SaveDiff
    \/ Mask
    \/ SaveMask
    \/ Area

Spec == Init /\ [][Next]_vars

\* ----------------------------------------------------------------- claims
Did(ev, what) == \E i \in 1..Len(log) : log[i] = Event(ev, what)
Count(ev, whats) == Cardinality({i \in 1..Len(log) : log[i].ev = ev /\ log[i].what \in whats})
Pixels(a) == 1..Len(a.px)
ShapeOf(p) == <<p.height, p.width>>
AfterMask == pc \in {"save_mask", "area", "done"}

\* C1: every per-pixel operation (index calculation, differencing, masking)
\* is applied to two grids of identical Grid Descriptor (shape, transform
\* and CRS).
C1_SameDescriptor == \A o \in ops : o.a = o.b

\* C2: the change mask is a subset of the validity grid, and a pixel is
\* valid exactly when the earlier and the later index are both defined there.
C2_MaskSubsetValid ==
    AfterMask =>
        \A k \in Pixels(g["deforest_mask"]) :
            /\ g["deforest_mask"].px[k] => g["valid"].px[k]
            /\ g["valid"].px[k] <=>
                   (~g["ndvi20"].px[k].nan /\ ~g["ndvi24"].px[k].nan)

C2_Witness ==
    /\ pc = "save_mask"
    /\ \E k \in Pixels(g["deforest_mask"]) :
          g["deforest_mask"].px[k] /\ ~g["ndvi20"].px[k].nan /\ ~g["ndvi24"].px[k].nan

\* C3: the threshold comparison is strict: a pixel whose difference equals
\* the threshold is not flagged, and a valid pixel whose difference is below
\* the threshold is flagged (0.5 -> 0.1 is flagged, 0.5 -> 0.35 is not).
C3_Flag(earlier, later) ==
    LET e == [shape |-> <<1, 1>>, px |-> <<earlier>>]
        l == [shape |-> <<1, 1>>, px |-> <<later>>]
    IN  deforest_mask_of(difference(l, e), valid_of(e, l)).px[1]

C3_StrictThreshold ==
    /\ AfterMask =>
        \A k \in Pixels(g["deforest_mask"]) :
            LET d == g["diff"].px[k]
            IN  /\ (~d.nan /\ d.n * 10 = -2 * d.d) => ~g["deforest_mask"].px[k]
                /\ (g["valid"].px[k] /\ ~d.nan /\ d.n * 10 < -2 * d.d)
                       => g["deforest_mask"].px[k]
    /\ pc = "done" => C3_Flag(Rat(5, 10), Rat(1, 10))
    /\ pc = "done" => ~C3_Flag(Rat(5, 10), Rat(35, 100))
    /\ pc = "done" => ~C3_Flag(Rat(5, 10), Rat(3, 10))

C3_Witness ==
    /\ pc = "save_mask"
    /\ \E k \in Pixels(g["diff"]) :
          /\ ~g["diff"].px[k].nan
          /\ g["diff"].px[k].n * 10 = -2 * g["diff"].px[k].d
          /\ g["valid"].px[k]
          /\ ~g["deforest_mask"].px[k]

\* C4: for finite nir and red the index is no-data when nir + red = 0 and
\* otherwise (nir - red) / (nir + red) clipped to [-1, 1]; every defined
\* index value lies in [-1, 1].
C4_PixelOk(x, nir, red) ==
    (~nir.nan /\ ~red.nan) =>
        LET num == nir.n * red.d - red.n * nir.d
            den == nir.n * red.d + red.n * nir.d
        IN  IF den = 0 THEN x.nan
            ELSE /\ ~x.nan
                 /\ IF Abs(num) <= Abs(den)
                    THEN x.n * den = num * x.d
                    ELSE IF (num < 0) = (den < 0)
                         THEN x.n = x.d
                         ELSE x.n = -x.d

C4_InRange(a) == \A k \in Pixels(a) : ~a.px[k].nan => (-a.px[k].d <= a.px[k].n /\ a.px[k].n <= a.px[k].d)

C4_Ndvi ==
    /\ pc = "save_ndvi20" =>
          \A k \in Pixels(g["ndvi20"]) :
              C4_PixelOk(g["ndvi20"].px[k], g["nir20"].px[k], g["red20"].px[k])
    /\ pc = "save_ndvi24" =>
          \A k \in Pixels(g["ndvi24"]) :
              C4_PixelOk(g["ndvi24"].px[k], g["nir24"].px[k], g["red24"].px[k])
    /\ C4_InRange(g["ndvi20"])
    /\ C4_InRange(g["ndvi24"])

C4_Witness ==
    /\ pc = "save_ndvi20"
    /\ \E k \in Pixels(g["ndvi20"]) :
          /\ ~g["nir20"].px[k].nan /\ ~g["red20"].px[k].nan
          /\ g["nir20"].px[k].n + g["red20"].px[k].n # 0
          /\ Abs(g["nir20"].px[k].n - g["red20"].px[k].n)
                 > Abs(g["nir20"].px[k].n + g["red20"].px[k].n)
          /\ g["ndvi20"].px[k] = Num(1)

\* C5: flagged_ha <= valid_ha; the percentage lies in [0, 100] when
\* valid_ha > 0; when valid_ha = 0 the percentage is not-a-number and the
\* run still completes.
C5_Area ==
    pc = "done" =>
        LET r == g["summary"]
        IN  /\ ~r.defor_ha.nan /\ ~r.total_ha.nan
            /\ r.defor_ha.n * r.total_ha.d <= r.total_ha.n * r.defor_ha.d
            /\ r.total_ha.n > 0 =>
                  /\ ~r.defor_pct.nan
                  /\ 0 <= r.defor_pct.n
                  /\ r.defor_pct.n <= 100 * r.defor_pct.d
                  /\ r.defor_pct.n * r.valid_pixels = 100 * r.defor_pixels * r.defor_pct.d
            /\ r.total_ha.n = 0 => r.defor_pct.nan
            /\ r.total_ha.n > 0 <=> r.valid_pixels > 0

C5_Witness ==
    /\ pc = "done"
    /\ g["summary"].valid_pixels = 0
    /\ g["summary"].total_ha.n = 0
    /\ g["summary"].defor_pct.nan

\* C6 as stated: a completed run has written five or six raster files.
C6_FiveOrSix == pc = "done" => Count("write", Outputs) \in {5, 6}

\* C6 amended: a completed run has written four or five raster files: the
\* two index rasters, the difference and the change mask once each, and the
\* temporary copy of the earlier index only when the two dates' descriptors
\* differ.
C6_FourOrFive ==
    pc = "done" =>
        /\ Count("write", Outputs) \in {4, 5}
        /\ \A p \in Outputs \ {"NDVI_2020_tmp.tif"} :
              Count("write", {p}) = 1 /\ disk[p] # NoFile
        /\ Count("write", {"NDVI_2020_tmp.tif"}) \in {0, 1}
        /\ Count("write", Outputs) = 5 <=> disk["NDVI_2020_tmp.tif"] # NoFile
        /\ disk["NDVI_2020_tmp.tif"] # NoFile => DescOf(g["prof20"]) # DescOf(g["prof24"])

C6_Witness == pc = "done" /\ Count("write", Outputs) = 5

\* The output files of the stage a statement belongs to.
StageOutputs(stmt) ==
    IF stmt \in {"ndvi20", "save_ndvi20"} THEN {"NDVI_2020.tif"}
    ELSE IF stmt \in {"ndvi24", "save_ndvi24"} THEN {"NDVI_2024.tif"}
    ELSE IF stmt \in {"interdate", "save_tmp", "reproject_tmp"} THEN {"NDVI_2020_tmp.tif"}
    ELSE IF stmt \in {"diff", "save_diff"} THEN {"NDVI_diff_24_minus_20.tif"}
    ELSE IF stmt \in {"mask", "save_mask"} THEN {"deforest_mask.tif"}
    ELSE {}

\* C7: when a stage fails the run stops there, and no output file of the
\* failed stage has been written.
C7_NoOutputOfFailedStage ==
    pc = "failed" =>
        /\ log[Len(log)].ev = "fail"
        /\ \A p \in StageOutputs(log[Len(log)].what) : disk[p] = NoFile

\* C8: an array returned by reproject_to_match has the target's dimensions
\* and is used under the target's transform and CRS; the index raster of a
\* date whose bands differ in dimensions has the red band's shape.
C8_AlignedToTarget ==
    /\ Did("align", "nir20") => g["nir20"].shape = ShapeOf(disk["B04_2020"])
    /\ Did("align", "nir24") => g["nir24"].shape = ShapeOf(disk["B04_2024"])
    /\ Did("align", "ndvi20") => g["ndvi20"].shape = ShapeOf(disk["B04_2024"])
    /\ disk["NDVI_2020.tif"] # NoFile =>
          /\ DescOf(disk["NDVI_2020.tif"]) = DescOf(disk["B04_2020"])
          /\ Len(disk["NDVI_2020.tif"].px) = disk["B04_2020"].height * disk["B04_2020"].width
    /\ disk["NDVI_2024.tif"] # NoFile =>
          /\ DescOf(disk["NDVI_2024.tif"]) = DescOf(disk["B04_2024"])
          /\ Len(disk["NDVI_2024.tif"].px) = disk["B04_2024"].height * disk["B04_2024"].width
    /\ (Did("align", "ndvi20") /\ disk["NDVI_diff_24_minus_20.tif"] # NoFile) =>
          /\ DescOf(disk["NDVI_diff_24_minus_20.tif"]) = DescOf(disk["B04_2024"])
          /\ Len(disk["NDVI_diff_24_minus_20.tif"].px)
                 = disk["B04_2024"].height * disk["B04_2024"].width

C8_Witness ==
    /\ Did("align", "nir20")
    /\ ShapeOf(disk["B08_2020"]) # ShapeOf(disk["B04_2020"])
    /\ disk["B04_2020"].width > disk["B08_2020"].width
    /\ disk["NDVI_2020.tif"] # NoFile

\* The stages of a run in order, given which alignments it performs.
Opt(b, seq) == IF b THEN seq ELSE <<>>

Expected(a20, a24, inter) ==
    <<Event("load", "red20"), Event("load", "nir20")>>
    \o Opt(a20, <<Event("align", "nir20")>>)
    \o <<Event("compute", "ndvi20"), Event("write", "NDVI_2020.tif"),
         Event("load", "red24"), Event("load", "nir24")>>
    \o Opt(a24, <<Event("align", "nir24")>>)
    \o <<Event("compute", "ndvi24"), Event("write", "NDVI_2024.tif")>>
    \o Opt(inter, <<Event("write", "NDVI_2020_tmp.tif"), Event("align", "ndvi20")>>)
    \o <<Event("compute", "diff"), Event("write", "NDVI_diff_24_minus_20.tif"),
         Event("compute", "deforest_mask"), Event("write", "deforest_mask.tif"),
         Event("compute", "summary")>>

IsStage(e) == e.ev \notin {"find", "fail"}
StageLog == SelectSeq(log, IsStage)
IsPrefix(s, t) == Len(s) <= Len(t) /\ \A i \in 1..Len(s) : s[i] = t[i]

\* C9 as stated: each derived product (earlier index, later index,
\* difference, change mask) is written exactly once.
C9_EachWrittenOnce ==
    pc = "done" =>
        /\ Count("write", {"NDVI_2020.tif", "NDVI_2020_tmp.tif"}) = 1
        /\ Count("write", {"NDVI_2024.tif"}) = 1
        /\ Count("write", {"NDVI_diff_24_minus_20.tif"}) = 1
        /\ Count("write", {"deforest_mask.tif"}) = 1

\* C9 amended: the stages run in the fixed order, each derived product is
\* written to its own file exactly once, after it is computed and before the
\* next one is computed, and the earlier index is written a second time, to
\* the temporary file, when inter-date alignment is performed.
C9_Order ==
    \E a20, a24, inter \in BOOLEAN :
        /\ IsPrefix(StageLog, Expected(a20, a24, inter))
        /\ pc = "done" => StageLog = Expected(a20, a24, inter)
        /\ (pc = "done" /\ ~inter) => C9_EachWrittenOnce

C9_Witness ==
    /\ pc = "done"
    /\ Count("write", {"NDVI_2020.tif", "NDVI_2020_tmp.tif"}) = 2

\* C10: the earlier index is resampled onto the later date's grid, exactly
\* when the two index rasters differ in shape or transform; the later index
\* is left unchanged; the difference and the mask are written with the later
\* date's descriptor.
AfterInterDate ==
    pc \in {"reproject_tmp", "diff", "save_diff", "mask", "save_mask", "area", "done"}

C10_InterDate ==
    /\ AfterInterDate =>
          (disk["NDVI_2020_tmp.tif"] # NoFile <=>
              (ShapeOf(disk["B04_2020"]) # ShapeOf(disk["B04_2024"])
                  \/ disk["B04_2020"].transform # disk["B04_2024"].transform))
    /\ (AfterInterDate /\ pc # "reproject_tmp") =>
          (Did("align", "ndvi20") <=> disk["NDVI_2020_tmp.tif"] # NoFile)
    /\ ~Did("align", "ndvi24")
    /\ disk["NDVI_2024.tif"] # NoFile => disk["NDVI_2024.tif"].px = g["ndvi24"].px
    /\ Did("align", "ndvi20") =>
          /\ g["ndvi20"].shape = ShapeOf(disk["B04_2024"])
          /\ geo["ndvi20"] = DescOf(disk["B04_2024"])
          /\ DescOf(disk["NDVI_2020_tmp.tif"]) = DescOf(disk["B04_2020"])
    /\ \A p \in {"NDVI_diff_24_minus_20.tif", "deforest_mask.tif"} :
          disk[p] # NoFile => DescOf(disk[p]) = DescOf(disk["B04_2024"])
    /\ disk["NDVI_diff_24_minus_20.tif"] # NoFile =>
          \A k \in Pixels(g["diff"]) :
              /\ disk["NDVI_diff_24_minus_20.tif"].px[k] = g["diff"].px[k]
              /\ g["diff"].px[k] = Sub(g["ndvi24"].px[k], g["ndvi20"].px[k])

C10_Witness ==
    /\ pc = "done"
    /\ Did("align", "ndvi20")
    /\ ShapeOf(disk["B04_2020"]) # ShapeOf(disk["B04_2024"])
    /\ disk["deforest_mask.tif"] # NoFile

====
